---------------------------- MODULE Spec2Model ----------------------------
(***************************************************************************)
(* A model of the AI Scene Fusion browser application:                     *)
(*   - utils/fileUtils.ts   fileToBase64 (client-side downscaling)         *)
(*   - services/geminiService.ts  swapCharactersInImage, inpaintImage      *)
(*   - App.tsx              the application state and its two handlers     *)
(*   - components/ImageEditor.tsx  the mask-drawing editor                 *)
(*                                                                         *)
(* Strings are sequences of tokens; a data URL is the token sequence       *)
(*   "data:" <type> ";base64" "," <payload tokens>                         *)
(* so that String.split(',') is modelled by what it does.                  *)
(***************************************************************************)
EXTENDS Integers, Sequences, FiniteSets, TLC

\* a value that may be null: <<>> for null, <<v>> for the value v
None == <<>>
Some(v) == <<v>>
Get(opt) == opt[1]

(***************************************************************************)
(* Bounds of the model.                                                    *)
(***************************************************************************)
\* image sides around MAX_DIMENSION: MAX_DIMENSION - Spread .. MAX_DIMENSION + Spread
Spread == 1
\* image sides that are multiples of MAX_DIMENSION, up to MaxScale * MAX_DIMENSION
MaxScale == 3
\* the mask editor's canvas is a row of NumCells cells
NumCells == 3
\* API requests that may be in flight at once when handlers are invoked directly
MaxInFlight == 2
\* the parts of a response candidate
MaxParts == 2

(***************************************************************************)
(* Program constants.                                                      *)
(***************************************************************************)
MAX_DIMENSION == 1024
MAX_DIM == 1024

(***************************************************************************)
(* Strings.                                                                *)
(***************************************************************************)
RECURSIVE SplitFrom(_, _, _)
\* the segments of s from position i on, cur being the segment read so far
SplitFrom(s, i, cur) ==
    IF i > Len(s) THEN <<cur>>
    ELSE IF s[i] = "," THEN <<cur>> \o SplitFrom(s, i + 1, <<>>)
    ELSE SplitFrom(s, i + 1, Append(cur, s[i]))

\* String.prototype.split(','): the segments between commas
SplitComma(s) == SplitFrom(s, 1, <<>>)

\* s.split(',')[1]: the second segment (every data URL holds a comma)
SplitComma1(s) == SplitComma(s)[2]

\* whether message m starts with the tokens of prefix p
StartsWith(m, p) ==
    /\ Len(m) >= Len(p)
    /\ SubSeq(m, 1, Len(p)) = p

(***************************************************************************)
(* Files and image data.  A File has the type the browser reports for it   *)
(* (File.type), its bytes (here already as base64 tokens) and the          *)
(* dimensions of the image the bytes decode to.  The encoding of image     *)
(* bytes is a property of the bytes.                                       *)
(***************************************************************************)
MimeTypes == {"image/png", "image/jpeg", "image/webp"}

\* the encoding a payload token is in; "none" for what is no image
DataFormat(tok) ==
    CASE tok = "PNGBYTES" -> "image/png"
      [] tok = "JPEGBYTES" -> "image/jpeg"
      [] tok = "WEBPBYTES" -> "image/webp"
      [] tok = "CANVASPNG" -> "image/png"
      [] tok = "CANVASJPEG" -> "image/jpeg"
      [] tok = "APIPNG" -> "image/png"
      [] tok = "APIJPEG" -> "image/jpeg"
      [] tok = "APIPNGBIG" -> "image/png"
      [] OTHER -> "none"

\* the encoding of a base64 string: that of its bytes, "none" when empty
FormatOf(base64) ==
    IF base64 = <<>> THEN "none" ELSE DataFormat(base64[1])

FileBytes == {"PNGBYTES", "JPEGBYTES", "WEBPBYTES"}

Sides ==
    {1, 3}
    \cup ((MAX_DIMENSION - Spread) .. (MAX_DIMENSION + Spread))
    \cup {k * MAX_DIMENSION : k \in 2..MaxScale}
    \cup {MaxScale * MAX_DIMENSION + 1}

\* the input files of the fileToBase64 specification
TestFiles ==
    [type : MimeTypes, data : {<<b>> : b \in FileBytes}, width : Sides, height : Sides]

(***************************************************************************)
(* fileToBase64 (utils/fileUtils.ts).                                      *)
(***************************************************************************)
\* FileReader.readAsDataURL: "data:<type>;base64,<bytes>"
ReadAsDataURL(file) == <<"data:", file.type, ";base64", ",">> \o file.data

\* assigning a number to canvas.width / canvas.height keeps its integer part
ToCanvasSize(num, den) == num \div den

\* HTMLCanvasElement.toDataURL(type): "data:," for a bitmap without pixels,
\* else the bitmap encoded as type (PNG for a type that is not supported)
ToDataURL(canvas, type) ==
    IF canvas.width = 0 \/ canvas.height = 0 THEN <<"data:", ",">>
    ELSE IF type = "image/jpeg" THEN <<"data:", "image/jpeg", ";base64", ",", "CANVASJPEG">>
    ELSE <<"data:", "image/png", ";base64", ",", "CANVASPNG">>

\* lines 34: the image is already small enough
SmallEnoughMutant(width, height) == width < MAX_DIMENSION /\ height < MAX_DIMENSION
SmallEnough(width, height) == width <= MAX_DIMENSION /\ height <= MAX_DIMENSION

\* lines 46-60: the canvas size, preserving the aspect ratio.
\* height *= MAX_DIMENSION / width is taken in exact arithmetic.
ResizedCanvasMutant(width, height) ==
    IF width < height
    THEN IF width > MAX_DIMENSION
         THEN [width |-> MAX_DIMENSION, height |-> ToCanvasSize(height * MAX_DIMENSION, width)]
         ELSE [width |-> width, height |-> height]
    ELSE IF height > MAX_DIMENSION
         THEN [width |-> ToCanvasSize(width * MAX_DIMENSION, height), height |-> MAX_DIMENSION]
         ELSE [width |-> width, height |-> height]
ResizedCanvas(width, height) ==
    IF width > height
    THEN IF width > MAX_DIMENSION
         THEN [width |-> MAX_DIMENSION, height |-> ToCanvasSize(height * MAX_DIMENSION, width)]
         ELSE [width |-> width, height |-> height]
    ELSE IF height > MAX_DIMENSION
         THEN [width |-> ToCanvasSize(width * MAX_DIMENSION, height), height |-> MAX_DIMENSION]
         ELSE [width |-> width, height |-> height]

\* line 64
OutputMimeType(file) == IF file.type = "image/png" THEN "image/png" ELSE "image/jpeg"

\* a settled fileToBase64 promise.  canvas is the bitmap the result was
\* rendered on, None when the file is passed through.
Resolved(base64, mimeType, canvas) ==
    [status |-> "resolved", base64 |-> base64, mimeType |-> mimeType,
     canvas |-> canvas, message |-> <<>>]
Rejected(msg) ==
    [status |-> "rejected", base64 |-> <<>>, mimeType |-> "", canvas |-> None,
     message |-> msg]

\* img.onload (lines 30-70): how the promise settles
ImgOnload(file, imgUrl, hasCtx) ==
    IF SmallEnough(file.width, file.height)
    THEN Resolved(SplitComma1(imgUrl), file.type, None)
    ELSE IF ~hasCtx THEN Rejected(<<"Could not get canvas 2D context.">>)
    ELSE LET canvas == ResizedCanvas(file.width, file.height)
             dataUrl == ToDataURL(canvas, OutputMimeType(file))
         IN  Resolved(SplitComma1(dataUrl), OutputMimeType(file), Some(canvas))

\* what the browser does with one call: the reader fails, yields no data,
\* the image fails to decode, no 2D context is available, or all succeed
ConvEnvs == {"ok", "readerError", "noResult", "imgError", "noContext"}

\* fileToBase64(file) (lines 16-76) under environment env
FileToBase64(file, env) ==
    CASE env = "readerError" -> Rejected(<<"File reader error: ", "event">>)
      [] env = "noResult" -> Rejected(<<"Could not read file data.">>)
      [] env = "imgError" -> Rejected(<<"Image failed to load for processing: ", "event">>)
      [] OTHER -> ImgOnload(file, ReadAsDataURL(file), env # "noContext")


(***************************************************************************)
(* The generative-image API and the service (services/geminiService.ts).   *)
(***************************************************************************)
\* the image payloads the API may return
ApiImages == {"APIPNG", "APIJPEG", "APIPNGBIG"}

\* what an image payload of the API decodes to: its encoding and its size
ImageInfo(tok) ==
    CASE tok = "APIPNG" -> [mimeType |-> "image/png", width |-> MAX_DIM, height |-> MAX_DIM]
      [] tok = "APIJPEG" -> [mimeType |-> "image/jpeg", width |-> MAX_DIM, height |-> MAX_DIM - 1]
      [] tok = "APIPNGBIG" -> [mimeType |-> "image/png", width |-> 2 * MAX_DIM, height |-> MAX_DIM + 1]

\* the parts of a response: text, inline data without data, an inline image
TextPart == [inlineData |-> None]
EmptyInlinePart == [inlineData |-> Some([mimeType |-> "image/png", data |-> <<>>])]
ImagePart(tok) ==
    [inlineData |-> Some([mimeType |-> ImageInfo(tok).mimeType, data |-> <<tok>>])]

PartKinds == {TextPart, EmptyInlinePart} \cup {ImagePart(tok) : tok \in ApiImages}

\* the part lists of a candidate, up to MaxParts parts
PartLists == UNION {[1..n -> PartKinds] : n \in 0..MaxParts}

\* how ai.models.generateContent settles: a response with its candidates, a
\* rejection with an Error, a rejection with a value that is no Error
ApiResponse(candidates) == [kind |-> "response", candidates |-> candidates, message |-> <<>>]
ApiError(msg) == [kind |-> "error", candidates |-> <<>>, message |-> msg]
ApiThrown == [kind |-> "thrown", candidates |-> <<>>, message |-> <<>>]

ApiOutcomes ==
    {ApiResponse(<<>>)}
    \cup {ApiResponse(<<parts>>) : parts \in PartLists}
    \cup {ApiResponse(<<parts, <<ImagePart("APIPNG")>>>>) : parts \in PartLists}
    \cup {ApiError(<<"quota exceeded">>), ApiThrown}

\* the outcomes the application specifications draw from: those with at
\* most one candidate of at most one part
AppOutcomes ==
    {o \in ApiOutcomes :
        /\ Len(o.candidates) <= 1
        /\ \A c \in 1..Len(o.candidates) : Len(o.candidates[c]) <= 1}

\* response.candidates?.[0]?.content?.parts ?? []
FirstCandidateParts(outcome) ==
    IF Len(outcome.candidates) >= 1 THEN outcome.candidates[1] ELSE <<>>

\* part.inlineData?.data is truthy
HasInlineData(part) ==
    /\ part.inlineData # None
    /\ Get(part.inlineData).data # <<>>

RECURSIVE FirstInlineDataFrom(_, _)
\* the for loop of lines 111-115 / 161-165 from part i on: the data it
\* returns, None when it runs to the end
FirstInlineDataFrom(parts, i) ==
    IF i > Len(parts) THEN None
    ELSE IF HasInlineData(parts[i]) THEN Some(Get(parts[i].inlineData).data)
    ELSE FirstInlineDataFrom(parts, i + 1)

FirstInlineData(parts) == FirstInlineDataFrom(parts, 1)

\* a settled service promise
ServiceResolved(value) == [status |-> "resolved", value |-> value, message |-> <<>>]
ServiceRejected(msg) == [status |-> "rejected", value |-> <<>>, message |-> msg]

SwapPrefix == <<"Failed to generate image: ">>
InpaintPrefix == <<"Inpainting failed: ">>
SwapUnknown == <<"An unknown error occurred while calling the Gemini API.">>
InpaintUnknown == <<"An unknown error occurred during the inpainting API call.">>
SwapNoImage == <<"The AI did not return an image. It might have refused the request due to safety policies or an inability to process the images.">>
InpaintNoImage == <<"The AI did not return an edited image. It may have refused the request.">>

\* the try/catch of lines 96-125 / 146-175: the message of the error caught
\* is prefixed when it is an Error, else the unknown-error message is thrown
CatchMutant(outcome, prefix, noImage, unknown) ==
    CASE outcome.kind = "thrown" -> ServiceRejected(unknown)
      [] outcome.kind = "error" -> ServiceRejected(prefix \o outcome.message)
      [] OTHER ->
          LET parts == FirstCandidateParts(outcome)
          IN  IF Len(parts) >= 1 /\ parts[1].inlineData # None
              THEN ServiceResolved(Get(parts[1].inlineData).data)
              ELSE ServiceRejected(prefix \o noImage)
Catch(outcome, prefix, noImage, unknown) ==
    CASE outcome.kind = "thrown" -> ServiceRejected(unknown)
      [] outcome.kind = "error" -> ServiceRejected(prefix \o outcome.message)
      [] OTHER ->
          LET data == FirstInlineData(FirstCandidateParts(outcome))
          IN  IF data # None THEN ServiceResolved(Get(data))
              ELSE ServiceRejected(prefix \o noImage)

\* swapCharactersInImage (lines 41-126), given how the API call settles
SwapCharactersInImage(outcome) == Catch(outcome, SwapPrefix, SwapNoImage, SwapUnknown)

\* inpaintImage (lines 133-176), given how the API call settles
InpaintImage(outcome) == Catch(outcome, InpaintPrefix, InpaintNoImage, InpaintUnknown)

ServiceCall(fn, outcome) ==
    IF fn = "swapCharactersInImage" THEN SwapCharactersInImage(outcome)
    ELSE InpaintImage(outcome)


(***************************************************************************)
(* The application (App.tsx) and the mask editor (ImageEditor).            *)
(***************************************************************************)
VARIABLES
    sceneImage,         \* useState<File | null>
    characterImage,     \* useState<File | null>
    resultImage,        \* useState<string | null>: the data URL shown
    resultImageBase64,  \* useState<string | null>
    isLoading,
    isEditing,
    error,              \* useState<string | null>
    requests,           \* the handler calls awaiting a promise, oldest first
    lastSuccess,        \* history: the data of the last request that succeeded
    event,              \* history: the handler or callback that ran last
    canvas,             \* ImageEditor: the visible canvas
    maskCanvas,         \* ImageEditor: the hidden mask canvas
    isDrawing,          \* ImageEditor: useRef(false)
    lastPosition,       \* ImageEditor: useRef<{x, y} | null>
    pendingLoads,       \* ImageEditor: image URLs whose onload has not fired
    strokes,            \* history: the cells a brush stroke covered since the editor opened
    pressed,            \* history: a mouse-down on the canvas, no mouse-up or mouse-leave since
    conv,               \* the fileToBase64 call under test
    call                \* the service call under test

appVars == <<sceneImage, characterImage, resultImage, resultImageBase64, isLoading,
             isEditing, error, requests, lastSuccess>>
editorVars == <<canvas, maskCanvas, isDrawing, lastPosition, pendingLoads, strokes, pressed>>
vars == <<appVars, event, editorVars, conv, call>>

\* the files the user may upload in the application specification
AppFiles ==
    {[type |-> "image/png", data |-> <<"PNGBYTES">>, width |-> MAX_DIMENSION, height |-> 3],
     [type |-> "image/jpeg", data |-> <<"JPEGBYTES">>, width |-> 2 * MAX_DIMENSION,
      height |-> MAX_DIMENSION + 1]}

\* the cells of the editor's canvases, in a row
Cells == 1..NumCells

\* a canvas element as created without width and height attributes (lines
\* 287-296): the default 300 x 150 bitmap of transparent pixels
BlankCanvas ==
    [width |-> 300, height |-> 150, background |-> "transparent", black |-> {}]

\* JavaScript truthiness of a string | null
Truthy(opt) == opt # None /\ Get(opt) # <<>>

\* `data:image/png;base64,${result}` (App.tsx lines 102, 126)
PngDataUrl(result) == <<"data:", "image/png", ";base64", ",">> \o result

\* App.tsx line 137: the editor is rendered
EditorMounted == isEditing /\ Truthy(resultImage) /\ Truthy(resultImageBase64)

\* App.tsx line 193, RefinePanel.tsx line 144
CanGenerate == sceneImage # None /\ characterImage # None
FuseButtonEnabledMutant == CanGenerate
FuseButtonEnabled == ~(~CanGenerate \/ isLoading)

AppInit ==
    /\ sceneImage = None
    /\ characterImage = None
    /\ resultImage = None
    /\ resultImageBase64 = None
    /\ isLoading = FALSE
    /\ isEditing = FALSE
    /\ error = None
    /\ requests = <<>>
    /\ lastSuccess = None
    /\ event = "init"
    /\ canvas = BlankCanvas
    /\ maskCanvas = BlankCanvas
    /\ isDrawing = FALSE
    /\ lastPosition = None
    /\ pendingLoads = {}
    /\ strokes = {}
    /\ pressed = FALSE

\* React renders after a state change: the editor is unmounted, mounted
\* afresh (its effect starts loading imageUrl), or kept; when imageUrl
\* changes under a mounted editor the effect runs again
Render ==
    IF ~EditorMounted'
    THEN /\ canvas' = BlankCanvas
         /\ maskCanvas' = BlankCanvas
         /\ isDrawing' = FALSE
         /\ lastPosition' = None
         /\ pendingLoads' = {}
         /\ strokes' = {}
         /\ pressed' = FALSE
    ELSE IF ~EditorMounted
    THEN /\ canvas' = BlankCanvas
         /\ maskCanvas' = BlankCanvas
         /\ isDrawing' = FALSE
         /\ lastPosition' = None
         /\ pendingLoads' = {Get(resultImage')}
         /\ strokes' = {}
         /\ pressed' = FALSE
    ELSE /\ pendingLoads' =
              IF resultImage' # resultImage
              THEN pendingLoads \cup {Get(resultImage')}
              ELSE pendingLoads
         /\ UNCHANGED <<canvas, maskCanvas, isDrawing, lastPosition, strokes, pressed>>

RemoveAt(seq, i) == SubSeq(seq, 1, i - 1) \o SubSeq(seq, i + 1, Len(seq))

NoFile == None
FuseRequest(scene, character) ==
    [kind |-> "fuse", phase |-> "converting", scene |-> scene,
     character |-> character, parts |-> <<>>, mask |-> BlankCanvas, strokes |-> {}]
InpaintRequest(imageBase64, imageMimeType, maskBase64, maskMimeType) ==
    [kind |-> "inpaint", phase |-> "calling", scene |-> NoFile, character |-> NoFile,
     parts |-> <<[data |-> imageBase64, mimeType |-> imageMimeType],
                 [data |-> maskBase64, mimeType |-> maskMimeType]>>,
     mask |-> maskCanvas, strokes |-> strokes]

\* handleSceneImageUpload (App.tsx lines 58-61)
HandleSceneImageUpload(file) ==
    /\ sceneImage' = Some(file)
    /\ event' = "handleSceneImageUpload"
    /\ UNCHANGED <<characterImage, resultImage, resultImageBase64, isLoading, isEditing,
                   error, requests, lastSuccess, editorVars, conv, call>>

\* handleCharacterImageUpload (App.tsx lines 63-66)
HandleCharacterImageUpload(file) ==
    /\ characterImage' = Some(file)
    /\ event' = "handleCharacterImageUpload"
    /\ UNCHANGED <<sceneImage, resultImage, resultImageBase64, isLoading, isEditing,
                   error, requests, lastSuccess, editorVars, conv, call>>

MissingImagesMessage == <<"Please upload both a scene and a character image.">>

\* line 69: an image is missing
ImageMissingMutant == sceneImage = None /\ characterImage = None
ImageMissing == sceneImage = None \/ characterImage = None

\* handleGenerate (App.tsx lines 68-77), up to its first await
HandleGenerate ==
    /\ event' = "handleGenerate"
    /\ IF ImageMissing
       THEN /\ error' = Some(MissingImagesMessage)
            /\ UNCHANGED <<resultImage, resultImageBase64, isLoading, requests>>
       ELSE /\ Len(requests) < MaxInFlight
            /\ isLoading' = TRUE
            /\ error' = None
            /\ resultImage' = None
            /\ resultImageBase64' = None
            /\ requests' = Append(requests, FuseRequest(sceneImage, characterImage))
    /\ UNCHANGED <<sceneImage, characterImage, isEditing, lastSuccess, conv, call>>
    /\ Render

\* the "Fuse Images" button (RefinePanel.tsx lines 142-145)
ClickFuse ==
    /\ FuseButtonEnabled
    /\ HandleGenerate


\* the rejection Promise.all (lines 80-83) passes on: that of the
\* conversion that rejects first
FirstRejections(scene, character) ==
    {p \in {scene, character} : p.status = "rejected"}

\* handleGenerate with setIsLoading(false) after the try block instead of in
\* a finally clause: a rejected conversion leaves the spinner on
ConvertSettleMutant(i, sceneEnv, characterEnv) ==
    /\ i \in 1..Len(requests)
    /\ requests[i].phase = "converting"
    /\ LET scene == FileToBase64(Get(requests[i].scene), sceneEnv)
           character == FileToBase64(Get(requests[i].character), characterEnv)
       IN  IF FirstRejections(scene, character) = {}
           THEN /\ requests' =
                     [requests EXCEPT
                        ![i].phase = "calling",
                        ![i].parts =
                            <<[data |-> scene.base64, mimeType |-> scene.mimeType],
                              [data |-> character.base64, mimeType |-> character.mimeType]>>]
                /\ UNCHANGED <<error, isLoading>>
           ELSE /\ \E p \in FirstRejections(scene, character) : error' = Some(p.message)
                /\ UNCHANGED isLoading
                /\ requests' = RemoveAt(requests, i)
    /\ event' = "handleGenerate:converted"
    /\ UNCHANGED <<sceneImage, characterImage, resultImage, resultImageBase64, isEditing,
                   lastSuccess, conv, call>>
    /\ Render

\* handleGenerate resumes after Promise.all (lines 80-99, 104-109): it calls
\* swapCharactersInImage, or catches the rejection
ConvertSettle(i, sceneEnv, characterEnv) ==
    /\ i \in 1..Len(requests)
    /\ requests[i].phase = "converting"
    /\ LET scene == FileToBase64(Get(requests[i].scene), sceneEnv)
           character == FileToBase64(Get(requests[i].character), characterEnv)
       IN  IF FirstRejections(scene, character) = {}
           THEN /\ requests' =
                     [requests EXCEPT
                        ![i].phase = "calling",
                        ![i].parts =
                            <<[data |-> scene.base64, mimeType |-> scene.mimeType],
                              [data |-> character.base64, mimeType |-> character.mimeType]>>]
                /\ UNCHANGED <<error, isLoading>>
           ELSE /\ \E p \in FirstRejections(scene, character) : error' = Some(p.message)
                /\ isLoading' = FALSE
                /\ requests' = RemoveAt(requests, i)
    /\ event' = "handleGenerate:converted"
    /\ UNCHANGED <<sceneImage, characterImage, resultImage, resultImageBase64, isEditing,
                   lastSuccess, conv, call>>
    /\ Render

EditingFailedPrefix == <<"Editing failed: ">>

\* err.message as the handler reports it (lines 106, 129)
ErrorMessage(kind, message) ==
    IF kind = "fuse" THEN message ELSE EditingFailedPrefix \o message

\* lines 101-102, 125-126: the result is stored
StoreResultMutant(result) ==
    /\ resultImageBase64' = Some(result)
    /\ UNCHANGED resultImage
StoreResult(result) ==
    /\ resultImageBase64' = Some(result)
    /\ resultImage' = Some(PngDataUrl(result))

\* the API call settles and the handler resumes (lines 101-109, 125-132)
ApiSettle(i, outcome) ==
    /\ i \in 1..Len(requests)
    /\ requests[i].phase = "calling"
    /\ LET promise == IF requests[i].kind = "fuse"
                      THEN SwapCharactersInImage(outcome)
                      ELSE InpaintImage(outcome)
       IN  IF promise.status = "resolved"
           THEN /\ StoreResult(promise.value)
                /\ lastSuccess' = Some(promise.value)
                /\ UNCHANGED error
           ELSE /\ error' = Some(ErrorMessage(requests[i].kind, promise.message))
                /\ UNCHANGED <<resultImage, resultImageBase64, lastSuccess>>
    /\ isLoading' = FALSE
    /\ requests' = RemoveAt(requests, i)
    /\ event' = IF requests[i].kind = "fuse" THEN "handleGenerate:settled"
                ELSE "handleInpaint:settled"
    /\ UNCHANGED <<sceneImage, characterImage, isEditing, conv, call>>
    /\ Render

\* handleInpaint (App.tsx lines 112-124), up to its await
HandleInpaint(imageBase64, maskBase64) ==
    /\ Len(requests) < MaxInFlight
    /\ isLoading' = TRUE
    /\ error' = None
    /\ isEditing' = FALSE
    /\ requests' = Append(requests,
                          InpaintRequest(imageBase64, "image/png", maskBase64, "image/png"))
    /\ UNCHANGED <<sceneImage, characterImage, resultImage, resultImageBase64, lastSuccess,
                   conv, call>>
    /\ Render

\* the "Edit Image" button (App.tsx lines 210-221)
EditImage ==
    /\ ~isLoading
    /\ Truthy(resultImage)
    /\ isEditing' = TRUE
    /\ event' = "editImage"
    /\ UNCHANGED <<sceneImage, characterImage, resultImage, resultImageBase64, isLoading,
                   error, requests, lastSuccess, conv, call>>
    /\ Render

\* onClose (App.tsx line 142): the editor's close and Cancel buttons
CloseEditor ==
    /\ EditorMounted
    /\ isEditing' = FALSE
    /\ event' = "onClose"
    /\ UNCHANGED <<sceneImage, characterImage, resultImage, resultImageBase64, isLoading,
                   error, requests, lastSuccess, conv, call>>
    /\ Render

(***************************************************************************)
(* ImageEditor (components/RefinePanel.tsx lines 153-333).                 *)
(***************************************************************************)
\* lines 184-194: the editor's canvas size for an image
EditorCanvasSize(width, height) ==
    IF width > MAX_DIM \/ height > MAX_DIM
    THEN IF width > height
         THEN [width |-> MAX_DIM, height |-> ToCanvasSize(height * MAX_DIM, width)]
         ELSE [width |-> ToCanvasSize(width * MAX_DIM, height), height |-> MAX_DIM]
    ELSE [width |-> width, height |-> height]

\* the image a data URL decodes to
DecodeImage(url) == ImageInfo(SplitComma1(url)[1])

\* image.onload (lines 182-207): both canvases are sized, which clears them,
\* the image is drawn and the mask is filled white
ImageOnload(url) ==
    /\ EditorMounted
    /\ url \in pendingLoads
    /\ pendingLoads' = pendingLoads \ {url}
    /\ LET size == EditorCanvasSize(DecodeImage(url).width, DecodeImage(url).height)
       IN  /\ canvas' = [width |-> size.width, height |-> size.height,
                         background |-> "image", black |-> {}]
           /\ maskCanvas' = [width |-> size.width, height |-> size.height,
                             background |-> "white", black |-> {}]
    /\ event' = "image.onload"
    /\ UNCHANGED <<appVars, isDrawing, lastPosition, strokes, pressed, conv, call>>

\* the cells a round-capped line from cell a to cell b covers
Stroke(a, b) == {c \in Cells : (a <= c /\ c <= b) \/ (b <= c /\ c <= a)}

\* draw (lines 225-259) with lastPosition as it stands
DrawAt(coords, last) ==
    LET from == IF last # None THEN Get(last) ELSE coords
    IN  /\ canvas' = [canvas EXCEPT !.black = @ \cup Stroke(from, coords)]
        /\ maskCanvas' = [maskCanvas EXCEPT !.black = @ \cup Stroke(from, coords)]
        /\ strokes' = strokes \cup Stroke(from, coords)
        /\ lastPosition' = Some(coords)

\* onMouseMove: draw (lines 225-259)
Draw(coords) ==
    /\ EditorMounted
    /\ IF ~isDrawing
       THEN UNCHANGED <<canvas, maskCanvas, strokes, lastPosition>>
       ELSE DrawAt(coords, lastPosition)
    /\ event' = "draw"
    /\ UNCHANGED <<appVars, isDrawing, pendingLoads, pressed, conv, call>>

\* onMouseDown: startDrawing (lines 261-265)
StartDrawing(coords) ==
    /\ EditorMounted
    /\ isDrawing' = TRUE
    /\ pressed' = TRUE
    /\ DrawAt(coords, Some(coords))
    /\ event' = "startDrawing"
    /\ UNCHANGED <<appVars, pendingLoads, conv, call>>

\* stopDrawing that only clears the flag and keeps the last position
StopDrawingMutant ==
    /\ EditorMounted
    /\ isDrawing' = FALSE
    /\ pressed' = FALSE
    /\ event' = "stopDrawing"
    /\ UNCHANGED <<appVars, canvas, maskCanvas, lastPosition, pendingLoads, strokes, conv, call>>

\* onMouseUp, onMouseLeave: stopDrawing (lines 267-270)
StopDrawing ==
    /\ EditorMounted
    /\ isDrawing' = FALSE
    /\ lastPosition' = None
    /\ pressed' = FALSE
    /\ event' = "stopDrawing"
    /\ UNCHANGED <<appVars, canvas, maskCanvas, pendingLoads, strokes, conv, call>>

\* handleSave (lines 272-276) behind the "Save Changes" button (lines 321-327)
HandleSave ==
    /\ EditorMounted
    /\ ~isLoading
    /\ event' = "handleSave"
    /\ HandleInpaint(Get(resultImageBase64), SplitComma1(ToDataURL(maskCanvas, "image/png")))

(***************************************************************************)
(* Specifications.                                                         *)
(***************************************************************************)
IdleConv == None
IdleCall == None

Init == AppInit /\ conv = IdleConv /\ call = IdleCall

Next ==
    \/ \E file \in AppFiles : HandleSceneImageUpload(file)
    \/ \E file \in AppFiles : HandleCharacterImageUpload(file)
    \/ ClickFuse
    \/ \E i \in 1..MaxInFlight, sceneEnv, characterEnv \in ConvEnvs :
           ConvertSettle(i, sceneEnv, characterEnv)
    \/ \E i \in 1..MaxInFlight, outcome \in AppOutcomes : ApiSettle(i, outcome)
    \/ EditImage
    \/ CloseEditor
    \/ \E url \in pendingLoads : ImageOnload(url)
    \/ \E coords \in Cells : StartDrawing(coords)
    \/ \E coords \in Cells : Draw(coords)
    \/ StopDrawing
    \/ HandleSave

\* the user interface: every handler runs from an enabled control
Spec == Init /\ [][Next]_vars

\* a pending promise settles: the handler waiting on it resumes
PromiseSettles ==
    \/ \E i \in 1..MaxInFlight, sceneEnv, characterEnv \in ConvEnvs :
           ConvertSettle(i, sceneEnv, characterEnv)
    \/ \E i \in 1..MaxInFlight, outcome \in AppOutcomes : ApiSettle(i, outcome)

\* the user interface, every awaited promise settling in the end
SpecLive == Spec /\ WF_vars(PromiseSettles)

\* handleGenerate as a function: it may run whatever the button's state
NextHandlers ==
    \/ \E file \in AppFiles : HandleSceneImageUpload(file)
    \/ \E file \in AppFiles : HandleCharacterImageUpload(file)
    \/ HandleGenerate
    \/ \E i \in 1..MaxInFlight, sceneEnv, characterEnv \in ConvEnvs :
           ConvertSettle(i, sceneEnv, characterEnv)
    \/ \E i \in 1..MaxInFlight, outcome \in AppOutcomes : ApiSettle(i, outcome)

SpecHandlers == Init /\ [][NextHandlers]_vars

\* one call of fileToBase64 on any test file
InitFile ==
    /\ AppInit
    /\ conv \in {Some([file |-> f, env |-> e, promise |-> None]) :
                    f \in TestFiles, e \in ConvEnvs}
    /\ call = IdleCall

SettleConv ==
    /\ Get(conv).promise = None
    /\ conv' = Some([Get(conv) EXCEPT
                        !.promise = Some(FileToBase64(Get(conv).file, Get(conv).env))])
    /\ UNCHANGED <<appVars, event, editorVars, call>>

SpecFile == InitFile /\ [][SettleConv]_vars

\* one call of a service function, the API call settling in any way
ServiceFunctions == {"swapCharactersInImage", "inpaintImage"}

InitService ==
    /\ AppInit
    /\ conv = IdleConv
    /\ call \in {Some([fn |-> f, outcome |-> o, promise |-> None]) :
                    f \in ServiceFunctions, o \in ApiOutcomes}

SettleCall ==
    /\ Get(call).promise = None
    /\ call' = Some([Get(call) EXCEPT
                        !.promise = Some(ServiceCall(Get(call).fn, Get(call).outcome))])
    /\ UNCHANGED <<appVars, event, editorVars, conv>>

SpecService == InitService /\ [][SettleCall]_vars

(***************************************************************************)
(* The claims.                                                             *)
(***************************************************************************)
\* C1 (SpecHandlers): a fusion request is started only with both images
\* uploaded: every request in flight holds a scene and a character file, a
\* step that starts one starts from a state with both images set, the Fuse
\* button is enabled only with both set, and handleGenerate run with an
\* image missing sets error to the upload message and changes nothing else.
C1_FusionNeedsBothImages ==
    [][/\ \A i \in 1..Len(requests') :
            requests'[i].scene # None /\ requests'[i].character # None
       /\ Len(requests') > Len(requests) =>
            sceneImage # None /\ characterImage # None
       /\ FuseButtonEnabled => sceneImage # None /\ characterImage # None
       /\ (event' = "handleGenerate" /\ (sceneImage = None \/ characterImage = None)) =>
            /\ error' = Some(<<"Please upload both a scene and a character image.">>)
            /\ UNCHANGED <<requests, isLoading, resultImage, resultImageBase64>>]_vars

\* handleGenerate has run with the character image missing
C1_Witness ==
    /\ event = "handleGenerate"
    /\ sceneImage # None
    /\ characterImage = None
    /\ error = Some(MissingImagesMessage)
    /\ requests = <<>>

\* C2 (Spec): resultImage and resultImageBase64 are both null, or resultImage
\* is 'data:image/png;base64,' followed by resultImageBase64; when set, the
\* value is the data of the request that succeeded last.
C2_ResultConsistent ==
    /\ \/ resultImage = None /\ resultImageBase64 = None
       \/ /\ resultImage # None
          /\ resultImageBase64 # None
          /\ Get(resultImage) =
                <<"data:", "image/png", ";base64", ",">> \o Get(resultImageBase64)
    /\ resultImageBase64 # None => resultImageBase64 = lastSuccess

\* an inpainting request has succeeded and its image is shown
C2_Witness ==
    /\ event = "handleInpaint:settled"
    /\ error = None
    /\ resultImage # None
    /\ resultImageBase64 = lastSuccess

\* the colour of cell c of a bitmap
Pixel(bitmap, c) == IF c \in bitmap.black THEN "black" ELSE bitmap.background

\* C3 (Spec), as claimed: in every mask handed to onSave a pixel is black
\* exactly when a brush stroke covered it and white everywhere else.
C3_MaskBlackWhereStroked ==
    \A i \in 1..Len(requests) :
        requests[i].kind = "inpaint" =>
            \A c \in Cells :
                Pixel(requests[i].mask, c) =
                    IF c \in requests[i].strokes THEN "black" ELSE "white"

\* the size of the image a settled conversion returns: that of the canvas it
\* was rendered on, or of the file passed through
OutputSize(c) ==
    IF Get(c.promise).canvas = None
    THEN [width |-> c.file.width, height |-> c.file.height]
    ELSE Get(Get(c.promise).canvas)

ConvResolved == conv # None /\ Get(conv).promise # None
                    /\ Get(Get(conv).promise).status = "resolved"

Max(a, b) == IF a >= b THEN a ELSE b

C5_SmallImagePassedThrough ==
    (/\ conv # None
     /\ Get(conv).promise # None
     /\ Get(conv).file.width <= 1024
     /\ Get(conv).file.height <= 1024
     /\ Get(conv).env \in {"ok", "noContext"}) =>
        LET p == Get(Get(conv).promise)
        IN  /\ p.status = "resolved"
            /\ p.base64 = Get(conv).file.data
            /\ p.mimeType = Get(conv).file.type
            /\ p.canvas = None

\* an image exactly 1024 wide has been converted
C5_Witness ==
    /\ ConvResolved
    /\ Get(conv).file.width = 1024
    /\ Get(conv).file.height = 1024
    /\ Get(Get(conv).promise).base64 = Get(conv).file.data

\* C6 (SpecFile), as claimed: the mimeType fileToBase64 resolves with is the
\* MIME type of the base64 data returned: the file's type when passed
\* through, image/png for a resized PNG file, image/jpeg for any other
\* resized file.
C6_MimeTypeIsThatOfTheData ==
    ConvResolved =>
        LET p == Get(Get(conv).promise)
            file == Get(conv).file
        IN  /\ p.mimeType = FormatOf(p.base64)
            /\ p.mimeType =
                 IF file.width <= 1024 /\ file.height <= 1024 THEN file.type
                 ELSE IF file.type = "image/png" THEN "image/png"
                 ELSE "image/jpeg"

CallSettled == call # None /\ Get(call).promise # None

\* part k is the first part of the first candidate with inline data
IsFirstInlineData(outcome, k) ==
    /\ outcome.kind = "response"
    /\ Len(outcome.candidates) >= 1
    /\ k \in 1..Len(outcome.candidates[1])
    /\ HasInlineData(outcome.candidates[1][k])
    /\ \A j \in 1..(k - 1) : ~HasInlineData(outcome.candidates[1][j])

PrefixOf(fn) ==
    IF fn = "swapCharactersInImage" THEN <<"Failed to generate image: ">>
    ELSE <<"Inpainting failed: ">>

UnknownOf(fn) ==
    IF fn = "swapCharactersInImage"
    THEN <<"An unknown error occurred while calling the Gemini API.">>
    ELSE <<"An unknown error occurred during the inpainting API call.">>

\* the service resolves with the first inline data of the first candidate
\* and never with an empty value
ResolvesWithFirstInlineData(c) ==
    LET p == Get(c.promise)
    IN  /\ \A k \in 1..MaxParts + 1 :
              IsFirstInlineData(c.outcome, k) =>
                  /\ p.status = "resolved"
                  /\ p.value = Get(c.outcome.candidates[1][k].inlineData).data
        /\ p.status = "resolved" =>
              /\ p.value # <<>>
              /\ \E k \in 1..MaxParts + 1 : IsFirstInlineData(c.outcome, k)

\* C7 (SpecService), as claimed: the service resolves with the first inline
\* data of the first candidate; without one, or when the API call fails, it
\* rejects with a message prefixed 'Failed to generate image: ' resp.
\* 'Inpainting failed: '.
C7_RejectsWithPrefixedMessage ==
    CallSettled =>
        /\ ResolvesWithFirstInlineData(Get(call))
        /\ Get(Get(call).promise).status = "rejected" =>
              StartsWith(Get(Get(call).promise).message, PrefixOf(Get(call).fn))

\* C7 (SpecService), amended: as claimed, but when the API call rejects with
\* a value that is no Error the message is the unknown-error message of the
\* function, without the prefix.
C7_RejectsPrefixedUnlessNoError ==
    CallSettled =>
        /\ ResolvesWithFirstInlineData(Get(call))
        /\ Get(Get(call).promise).status = "rejected" =>
              IF Get(call).outcome.kind = "thrown"
              THEN Get(Get(call).promise).message = UnknownOf(Get(call).fn)
              ELSE StartsWith(Get(Get(call).promise).message, PrefixOf(Get(call).fn))

\* inpaintImage has resolved with the data of a second part, the first
\* part being text
C7_Witness ==
    /\ CallSettled
    /\ Get(call).fn = "inpaintImage"
    /\ IsFirstInlineData(Get(call).outcome, 2)
    /\ Get(Get(call).promise).status = "resolved"

\* C8 (Spec), as claimed: the mask handed to onSave has the width and the
\* height of the image whose base64 data is handed over with it.
C8_MaskSizeIsImageSize ==
    \A i \in 1..Len(requests) :
        requests[i].kind = "inpaint" =>
            LET image == ImageInfo(requests[i].parts[1].data[1])
            IN  /\ requests[i].mask.width = image.width
                /\ requests[i].mask.height = image.height

\* C9 (Spec), as claimed: the MIME type declared for the image of an
\* inpainting request is image/png and is the MIME type of the image data
\* as the API returned it.
C9_InpaintImageIsPng ==
    \A i \in 1..Len(requests) :
        requests[i].kind = "inpaint" =>
            /\ requests[i].parts[1].mimeType = "image/png"
            /\ requests[i].parts[1].mimeType = FormatOf(requests[i].parts[1].data)

\* C10 (Spec): at most one request is in flight and isLoading is true while
\* it is; a step that starts a request starts from a state where isLoading
\* is false and nothing is in flight, so a response never meets a newer one.
C10_OneRequestInFlight ==
    [][/\ Len(requests') <= 1
       /\ requests' # <<>> => isLoading'
       /\ Len(requests') > Len(requests) => ~isLoading /\ requests = <<>>]_vars

\* an inpainting request is in flight while both images are uploaded
C10_Witness ==
    /\ Len(requests) = 1
    /\ requests[1].kind = "inpaint"
    /\ sceneImage # None
    /\ characterImage # None
    /\ isLoading


(***************************************************************************)
(* C11: isLoading is true exactly while a fusion or inpainting request is  *)
(* in flight, and every started request, its promises settling, leaves     *)
(* isLoading false in the end, whether the conversion or the API call      *)
(* succeeded or failed.                                                    *)
(***************************************************************************)
C11_LoadingEndsWithRequest ==
    /\ [](isLoading <=> requests # <<>>)
    /\ \A kind \in {"fuse", "inpaint"} :
           (requests # <<>> /\ requests[1].kind = kind) ~> (~isLoading /\ requests = <<>>)

\* a fusion request has just ended on a rejected file conversion
C11_Witness ==
    /\ event = "handleGenerate:converted"
    /\ error # None
    /\ requests = <<>>
    /\ ~isLoading


(***************************************************************************)
(* C12: in the mask editor a mouse-move outside a press (no mouse-down, or *)
(* a mouse-up or mouse-leave since the last one) leaves the visible canvas *)
(* and the mask unchanged; lastPosition is null whenever isDrawing is      *)
(* false; and a mouse-down paints at most its own point, never a line from *)
(* where the previous stroke ended.                                        *)
(***************************************************************************)
C12_PaintOnlyDuringPress ==
    [][/\ event' = "draw" /\ ~pressed => UNCHANGED <<canvas, maskCanvas>>
       /\ ~isDrawing' => lastPosition' = None
       /\ \A coords \in Cells :
              event' = "startDrawing" /\ lastPosition' = Some(coords) =>
                  /\ canvas'.black \ canvas.black \subseteq {coords}
                  /\ maskCanvas'.black \ maskCanvas.black \subseteq {coords}]_vars

\* two strokes at the two ends of the canvas, the cell between them
\* unpainted, and the mouse moving after the second was released
C12_Witness ==
    /\ event = "draw"
    /\ ~pressed
    /\ ~isDrawing
    /\ lastPosition = None
    /\ canvas.black = {1, NumCells}
    /\ maskCanvas.black = {1, NumCells}

=============================================================================
